---- MODULE Spec2Model ----
(***************************************************************************)
(* markut: a marker log (CSV of timestamp[,ignore] records) is parsed into *)
(* chunks by loadChunksFromFile; the final / chunk / inspect subcommands   *)
(* cut the chunks with ffmpeg, write the concat list, concatenate and      *)
(* print highlights.  Model of src/markut.go.                              *)
(*                                                                         *)
(* Strings the program builds with fmt.Sprintf are sequences of one-       *)
(* character strings (plus a few fixed multi-character literals), so that  *)
(* formatting and parsing are computed, not assumed.                       *)
(* A marker record is what csv.Reader hands to the loop: field 0 already   *)
(* split off as a decimal integer, field 1 the flag ("" stands for any     *)
(* second field other than "ignore", and for a missing second field).      *)
(***************************************************************************)
EXTENDS Integers, Sequences, FiniteSets, TLC

\* ---------------------------------------------------------------- bounds
MaxLen == 4
MaxChunkArg == 2
MaxSecs == 359999
MaxLenLoaded == 5

Timestamps == {10, 20, 25, 30}
Delays == {-5, 0, 5}
Flags == {"", "ignore"}
Subcommands == {"final", "chunk", "inspect"}

Records == [ts : Timestamps, flag : Flags]

RECURSIVE SeqsUpTo(_)
SeqsUpTo(n) ==
    IF n = 0 THEN {<<>>}
    ELSE LET shorter == SeqsUpTo(n - 1)
         IN  shorter \cup {Append(s, r) : s \in {q \in shorter : Len(q) = n - 1}, r \in Records}

Streams == SeqsUpTo(MaxLen)

\* ------------------------------------------------- Go integer arithmetic
\* Go's / truncates toward zero and % takes the sign of the dividend.
GoDiv(a, b) == IF a >= 0 THEN a \div b ELSE -((-a) \div b)
GoMod(a, b) == a - b * GoDiv(a, b)

\* ------------------------------------------------------ decimal strings
DigitChars == <<"0", "1", "2", "3", "4", "5", "6", "7", "8", "9">>

RECURSIVE ItoaNat(_)
ItoaNat(n) ==
    IF n < 10 THEN <<DigitChars[n + 1]>>
    ELSE ItoaNat(n \div 10) \o <<DigitChars[(n % 10) + 1]>>

Itoa(n) == IF n < 0 THEN <<"-">> \o ItoaNat(-n) ELSE ItoaNat(n)

\* fmt's %02d: pad with zeros to width 2, the sign counting for the width
FmtD02(n) ==
    LET s == Itoa(n)
    IN  IF Len(s) >= 2 THEN s ELSE <<"0">> \o s

IsDigit(c) == \E i \in 1..10 : DigitChars[i] = c
DigitVal(c) == (CHOOSE i \in 1..10 : DigitChars[i] = c) - 1

RECURSIVE DigitsVal(_)
DigitsVal(s) ==
    IF s = <<>> THEN 0
    ELSE 10 * DigitsVal(SubSeq(s, 1, Len(s) - 1)) + DigitVal(s[Len(s)])

\* strconv.Atoi: optional sign, then one or more decimal digits
Atoi(s) ==
    LET signed == s # <<>> /\ s[1] \in {"-", "+"}
        body == IF signed THEN Tail(s) ELSE s
    IN  IF body = <<>> \/ \E i \in 1..Len(body) : ~IsDigit(body[i])
        THEN [err |-> TRUE, val |-> 0]
        ELSE [err |-> FALSE,
              val |-> IF signed /\ s[1] = "-" THEN -DigitsVal(body) ELSE DigitsVal(body)]

\* strings.Split(ts, ":")
RECURSIVE Split(_)
Split(s) ==
    IF \A i \in 1..Len(s) : s[i] # ":" THEN <<s>>
    ELSE LET k == CHOOSE i \in 1..Len(s) :
                      s[i] = ":" /\ \A j \in 1..(i - 1) : s[j] # ":"
         IN  <<SubSeq(s, 1, k - 1)>> \o Split(SubSeq(s, k + 1, Len(s)))

\* ------------------------------------------------------ timestamp codec
tsToSecs(ts) ==
    LET comps == Split(ts)
    IN  IF Len(comps) # 3 THEN [panic |-> TRUE, val |-> 0]
        ELSE LET hh == Atoi(comps[1])
                 mm == Atoi(comps[2])
                 ss == Atoi(comps[3])
             IN  IF hh.err \/ mm.err \/ ss.err THEN [panic |-> TRUE, val |-> 0]
                 ELSE [panic |-> FALSE, val |-> 60 * 60 * hh.val + 60 * mm.val + ss.val]

\* variant: the minutes are not reduced modulo 60
secsToTsNoMod(secs) ==
    LET hh == GoDiv(GoDiv(secs, 60), 60)
        mm == GoDiv(secs, 60)
        ss == GoMod(secs, 60)
    IN  FmtD02(hh) \o <<":">> \o FmtD02(mm) \o <<":">> \o FmtD02(ss)

secsToTs(secs) ==
    LET hh == GoDiv(GoDiv(secs, 60), 60)
        mm == GoMod(GoDiv(secs, 60), 60)
        ss == GoMod(secs, 60)
    IN  FmtD02(hh) \o <<":">> \o FmtD02(mm) \o <<":">> \o FmtD02(ss)

\* ---------------------------------------------------------------- Chunk
\* Chunk.Duration(end): the assertion, and the value when it passes
DurationPanics(chunk, end) == end < chunk.Start
Duration(chunk, end) == end - chunk.Start

\* &Chunk{Start: timestamp}: the other fields hold Go's zero values
NewChunk(timestamp) ==
    [Start |-> timestamp, End |-> 0, Ignored |-> <<>>, Name |-> <<>>]

\* variant: the index is printed with %d
ChunkNameUnpadded(n) == <<"chunk-">> \o Itoa(n) \o <<".mp4">>

\* variant: chunks numbered from 1
ChunkNameFromOne(n) == <<"chunk-">> \o FmtD02(n + 1) \o <<".mp4">>

\* fmt.Sprintf("chunk-%02d.mp4", len(chunks))
ChunkName(n) == <<"chunk-">> \o FmtD02(n) \o <<".mp4">>

\* ------------------------------------------------- loadChunksFromFile
\* variant: the delay is not applied to ignore markers
TimestampIgnoreUndelayed(record, d) ==
    IF record.flag = "ignore" THEN record.ts ELSE record.ts + d

\* timestamp, err := strconv.Atoi(record[0]); timestamp += delay
Timestamp(record, d) == record.ts + d

\* ignored := len(record) > 1 && record[1] == "ignore"
IsIgnored(record) == record.flag = "ignore"

NoErr == <<"none">>
ErrOutOfChunk(timestamp) == <<"Out of Chunk Ignored Marker", Itoa(timestamp)>>
ErrUnclosed == <<"Unclosed chunk detected!">>
ErrIncorrectEnd == <<"Assertion Failed: Incorrect end">>
ErrCut == <<"ffmpeg cut failed">>
ErrConcat == <<"ffmpeg concat failed">>
ErrCreate == <<"os.Create failed">>
ErrIndex == <<"index out of range">>

\* The loader's locals: chunks, chunkCurrent (<<>> is nil, <<c>> points to
\* c) and the panic raised, if any.
LoaderInit == [chunks |-> <<>>, chunkCurrent |-> <<>>, err |-> NoErr]

\* variant: chunkCurrent is not reset to nil when a chunk is closed
ConsumeNoReset(st, record, d) ==
    LET timestamp == Timestamp(record, d)
        ignored == IsIgnored(record)
    IN  IF st.chunkCurrent = <<>>
        THEN IF ignored
             THEN [st EXCEPT !.err = ErrOutOfChunk(timestamp)]
             ELSE [st EXCEPT !.chunkCurrent = <<NewChunk(timestamp)>>]
        ELSE IF ignored
             THEN [st EXCEPT !.chunkCurrent[1].Ignored = Append(@, timestamp)]
             ELSE LET closed == [st.chunkCurrent[1] EXCEPT
                                     !.End = timestamp,
                                     !.Name = ChunkName(Len(st.chunks))]
                  IN  [st EXCEPT !.chunks = Append(@, closed)]

\* variant: an ignore marker replaces the ignored timestamps recorded so far
ConsumeIgnoreOverwrites(st, record, d) ==
    LET timestamp == Timestamp(record, d)
        ignored == IsIgnored(record)
    IN  IF st.chunkCurrent = <<>>
        THEN IF ignored
             THEN [st EXCEPT !.err = ErrOutOfChunk(timestamp)]
             ELSE [st EXCEPT !.chunkCurrent = <<NewChunk(timestamp)>>]
        ELSE IF ignored
             THEN [st EXCEPT !.chunkCurrent[1].Ignored = <<timestamp>>]
             ELSE LET closed == [st.chunkCurrent[1] EXCEPT
                                     !.End = timestamp,
                                     !.Name = ChunkName(Len(st.chunks))]
                  IN  [st EXCEPT !.chunks = Append(@, closed),
                                 !.chunkCurrent = <<>>]

\* variant: closing a chunk replaces the chunks closed so far
ConsumeCloseReplaces(st, record, d) ==
    LET timestamp == Timestamp(record, d)
        ignored == IsIgnored(record)
    IN  IF st.chunkCurrent = <<>>
        THEN IF ignored
             THEN [st EXCEPT !.err = ErrOutOfChunk(timestamp)]
             ELSE [st EXCEPT !.chunkCurrent = <<NewChunk(timestamp)>>]
        ELSE IF ignored
             THEN [st EXCEPT !.chunkCurrent[1].Ignored = Append(@, timestamp)]
             ELSE LET closed == [st.chunkCurrent[1] EXCEPT
                                     !.End = timestamp,
                                     !.Name = ChunkName(Len(st.chunks))]
                  IN  [st EXCEPT !.chunks = <<closed>>,
                                 !.chunkCurrent = <<>>]

\* variant: an ignore marker met with no open chunk opens one
ConsumeIdleIgnoreOpens(st, record, d) ==
    LET timestamp == Timestamp(record, d)
        ignored == IsIgnored(record)
    IN  IF st.chunkCurrent = <<>>
        THEN [st EXCEPT !.chunkCurrent = <<NewChunk(timestamp)>>]
        ELSE IF ignored
             THEN [st EXCEPT !.chunkCurrent[1].Ignored = Append(@, timestamp)]
             ELSE LET closed == [st.chunkCurrent[1] EXCEPT
                                     !.End = timestamp,
                                     !.Name = ChunkName(Len(st.chunks))]
                  IN  [st EXCEPT !.chunks = Append(@, closed),
                                 !.chunkCurrent = <<>>]

\* one iteration of the for loop on a record that r.Read() returned
Consume(st, record, d) ==
    LET timestamp == Timestamp(record, d)
        ignored == IsIgnored(record)
    IN  IF st.chunkCurrent = <<>>
        THEN IF ignored
             THEN [st EXCEPT !.err = ErrOutOfChunk(timestamp)]
             ELSE [st EXCEPT !.chunkCurrent = <<NewChunk(timestamp)>>]
        ELSE IF ignored
             THEN [st EXCEPT !.chunkCurrent[1].Ignored = Append(@, timestamp)]
             ELSE LET closed == [st.chunkCurrent[1] EXCEPT
                                     !.End = timestamp,
                                     !.Name = ChunkName(Len(st.chunks))]
                  IN  [st EXCEPT !.chunks = Append(@, closed),
                                 !.chunkCurrent = <<>>]

\* variant: no check after the loop
AtEOFUnchecked(st) == st

\* r.Read() returned io.EOF: the check after the loop
AtEOF(st) ==
    IF st.chunkCurrent # <<>> THEN [st EXCEPT !.err = ErrUnclosed] ELSE st

\* the whole function on a record sequence: the loop stops at the first
\* panic, otherwise at EOF
RECURSIVE LoadFrom(_, _, _, _)
LoadFrom(records, d, st, i) ==
    IF st.err # NoErr THEN st
    ELSE IF i > Len(records) THEN AtEOF(st)
    ELSE LoadFrom(records, d, Consume(st, records[i], d), i + 1)

loadChunksFromFile(records, d) == LoadFrom(records, d, LoaderInit, 1)

\* ---------------------------------------------------- highlightChunks
Highlight(ts, msg) == [timestamp |-> ts, message |-> msg]

\* the Duration assertions one pass of the outer loop evaluates
ChunkPanics(chunk) ==
    \/ \E k \in 1..Len(chunk.Ignored) : DurationPanics(chunk, chunk.Ignored[k])
    \/ DurationPanics(chunk, chunk.End)

\* variant: the ignored highlights are stamped without the running total
ChunkHighlightsNoAcc(chunk, secs) ==
    [k \in 1..Len(chunk.Ignored) |->
        Highlight(secsToTs(Duration(chunk, chunk.Ignored[k])), "ignored")]
    \o <<Highlight(secsToTs(secs + Duration(chunk, chunk.End)), "cut")>>

\* the highlights one pass of the outer loop appends, secs being the
\* running total on entry
ChunkHighlights(chunk, secs) ==
    [k \in 1..Len(chunk.Ignored) |->
        Highlight(secsToTs(secs + Duration(chunk, chunk.Ignored[k])), "ignored")]
    \o <<Highlight(secsToTs(secs + Duration(chunk, chunk.End)), "cut")>>

RECURSIVE HighlightFrom(_, _, _, _)
HighlightFrom(chunks, i, secs, highlights) ==
    IF i > Len(chunks) THEN [panic |-> FALSE, highlights |-> highlights]
    ELSE IF ChunkPanics(chunks[i]) THEN [panic |-> TRUE, highlights |-> <<>>]
    ELSE HighlightFrom(chunks, i + 1,
                       secs + Duration(chunks[i], chunks[i].End),
                       highlights \o ChunkHighlights(chunks[i], secs))

highlightChunks(chunks) == HighlightFrom(chunks, 1, 0, <<>>)

\* ------------------------------------------------------ ffmpeg helpers
\* the arguments ffmpegCutChunk passes: -ss Start, -t Duration(End), Name
CutArgs(chunk) ==
    [ss |-> Itoa(chunk.Start), t |-> Itoa(Duration(chunk, chunk.End)), out |-> chunk.Name]

\* fmt.Fprintf(f, "file '%s'\n", chunk.Name)
ConcatListLine(chunk) == <<"file '">> \o chunk.Name \o <<"'", "\n">>

\* the guard of the chunk subcommand in front of chunks[*chunkPtr]
ChunkNumberRejected(chunkPtr, n) == chunkPtr > n

\* chunks[*chunkPtr] panics outside 0..len-1
IndexPanics(chunkPtr, n) == chunkPtr < 0 \/ chunkPtr >= n

\* ----------------------------------------------------------------- state
VARIABLES
    stream,        \* the records of the CSV file, in file order
    delay,         \* -delay
    cmd,           \* os.Args[1]
    chunkPtr,      \* -chunk
    pc,            \* where the run is
    pos,           \* number of records r.Read() has returned
    loader,        \* loadChunksFromFile's chunks, chunkCurrent
    chunks,        \* the subcommand's chunks (the loader's return value)
    idx,           \* position of the range loop under way
    cutLog,        \* ffmpeg cut invocations: arguments and outcome
    manifest,      \* lines written to ourlist.txt
    concatLog,     \* ffmpeg concat invocations: the list as it was then, outcome
    highlightsOut, \* highlight lines printed
    ignoredOut,    \* "Ignored timestamps" lines printed by the chunk subcommand
    err,           \* the panic or ERROR message that ended the run
    exitCode,      \* process exit status once the run has ended, else -1
    codec          \* a timestamp taken through secsToTs and tsToSecs

vars == <<stream, delay, cmd, chunkPtr, pc, pos, loader, chunks, idx, cutLog,
          manifest, concatLog, highlightsOut, ignoredOut, err, exitCode,
          codec>>

inputs == <<stream, delay, cmd, chunkPtr>>

\* no codec call under way
CodecOff == [step |-> "off", secs |-> 0, ts |-> <<>>,
             back |-> [panic |-> FALSE, val |-> 0]]
outputs == <<cutLog, manifest, concatLog, highlightsOut, ignoredOut>>

Init ==
    /\ stream \in Streams
    /\ delay \in Delays
    /\ cmd \in Subcommands
    /\ chunkPtr \in IF cmd = "chunk" THEN -1..MaxChunkArg ELSE {0}
    /\ pc = "load"
    /\ pos = 0
    /\ loader = LoaderInit
    /\ chunks = <<>>
    /\ idx = 0
    /\ cutLog = <<>>
    /\ manifest = <<>>
    /\ concatLog = <<>>
    /\ highlightsOut = <<>>
    /\ ignoredOut = <<>>
    /\ err = NoErr
    /\ exitCode = -1
    /\ codec = CodecOff

\* an uncaught panic: message on stderr, exit status 2
Panic(e) ==
    /\ pc' = "panic"
    /\ err' = e
    /\ exitCode' = 2

\* main returns: exit status 0
Finish ==
    /\ pc' = "done"
    /\ exitCode' = 0
    /\ UNCHANGED err

\* --------------------------------------------------------------- actions
\* variant: an ignore marker met with no open chunk is skipped
LoadRecordSkipsStray ==
    /\ pc = "load"
    /\ pos < Len(stream)
    /\ LET st == Consume(loader, stream[pos + 1], delay)
       IN  /\ loader' = IF st.err # NoErr THEN loader ELSE st
           /\ pos' = pos + 1
           /\ UNCHANGED <<pc, err, exitCode>>
    /\ UNCHANGED <<inputs, codec, outputs, chunks, idx>>

\* loadChunksFromFile, one pass of the for loop: r.Read() returns a record
LoadRecord ==
    /\ pc = "load"
    /\ pos < Len(stream)
    /\ LET st == Consume(loader, stream[pos + 1], delay)
       IN  /\ loader' = st
           /\ pos' = pos + 1
           /\ IF st.err # NoErr
              THEN Panic(st.err)
              ELSE UNCHANGED <<pc, err, exitCode>>
    /\ UNCHANGED <<inputs, codec, outputs, chunks, idx>>

\* loadChunksFromFile: r.Read() returns io.EOF, the unclosed-chunk check,
\* and the return into the subcommand
LoadEOF ==
    /\ pc = "load"
    /\ pos = Len(stream)
    /\ LET st == AtEOF(loader)
       IN  /\ loader' = st
           /\ IF st.err # NoErr
              THEN /\ Panic(st.err)
                   /\ UNCHANGED <<chunks, idx>>
              ELSE /\ chunks' = st.chunks
                   /\ pc' = CASE cmd = "final" -> "cut"
                               [] cmd = "chunk" -> "select"
                               [] OTHER -> "highlights"
                   /\ idx' = 1
                   /\ UNCHANGED <<err, exitCode>>
    /\ UNCHANGED <<inputs, codec, outputs, pos>>

\* finalSubcommand: one pass of the loop over chunks, ffmpegCutChunk
FinalCut ==
    /\ pc = "cut"
    /\ idx <= Len(chunks)
    /\ LET chunk == chunks[idx]
       IN  IF DurationPanics(chunk, chunk.End)
           THEN /\ Panic(ErrIncorrectEnd)
                /\ UNCHANGED <<cutLog, idx>>
           ELSE \E ok \in BOOLEAN :
                /\ cutLog' = Append(cutLog, [args |-> CutArgs(chunk), ok |-> ok])
                /\ idx' = idx + 1
                /\ UNCHANGED <<pc, err, exitCode>>
    /\ UNCHANGED <<inputs, codec, pos, loader, chunks, manifest, concatLog,
                   highlightsOut, ignoredOut>>

\* ffmpegGenerateConcatList: os.Create
ListCreate ==
    /\ pc = "cut"
    /\ idx > Len(chunks)
    /\ \E created \in BOOLEAN :
          IF created
          THEN /\ pc' = "list"
               /\ idx' = 1
               /\ UNCHANGED <<err, exitCode>>
          ELSE /\ Panic(ErrCreate)
               /\ UNCHANGED idx
    /\ UNCHANGED <<inputs, codec, outputs, pos, loader, chunks>>

\* variant: a chunk whose cut failed is left out of the list
ListLineSkipFailed ==
    /\ pc = "list"
    /\ idx <= Len(chunks)
    /\ manifest' = IF cutLog[idx].ok
                   THEN Append(manifest, ConcatListLine(chunks[idx]))
                   ELSE manifest
    /\ idx' = idx + 1
    /\ UNCHANGED <<inputs, codec, pc, pos, loader, chunks, cutLog, concatLog,
                   highlightsOut, ignoredOut, err, exitCode>>

\* ffmpegGenerateConcatList: one pass of the loop over chunks
ListLine ==
    /\ pc = "list"
    /\ idx <= Len(chunks)
    /\ manifest' = Append(manifest, ConcatListLine(chunks[idx]))
    /\ idx' = idx + 1
    /\ UNCHANGED <<inputs, codec, pc, pos, loader, chunks, cutLog, concatLog,
                   highlightsOut, ignoredOut, err, exitCode>>

\* variant: a failed concatenation is not fatal
ConcatIgnoreFailure ==
    /\ pc = "list"
    /\ idx > Len(chunks)
    /\ \E ok \in BOOLEAN :
          /\ concatLog' = Append(concatLog, [list |-> manifest, ok |-> ok])
          /\ pc' = "highlights"
          /\ UNCHANGED <<err, exitCode>>
    /\ UNCHANGED <<inputs, codec, pos, loader, chunks, idx, cutLog, manifest,
                   highlightsOut, ignoredOut>>

\* ffmpegConcatChunks
Concat ==
    /\ pc = "list"
    /\ idx > Len(chunks)
    /\ \E ok \in BOOLEAN :
          /\ concatLog' = Append(concatLog, [list |-> manifest, ok |-> ok])
          /\ IF ok
             THEN /\ pc' = "highlights"
                  /\ UNCHANGED <<err, exitCode>>
             ELSE Panic(ErrConcat)
    /\ UNCHANGED <<inputs, codec, pos, loader, chunks, idx, cutLog, manifest,
                   highlightsOut, ignoredOut>>

\* final and inspect: print highlightChunks(chunks), then return
PrintHighlights ==
    /\ pc = "highlights"
    /\ LET r == highlightChunks(chunks)
       IN  IF r.panic
           THEN /\ Panic(ErrIncorrectEnd)
                /\ UNCHANGED highlightsOut
           ELSE /\ highlightsOut' = r.highlights
                /\ Finish
    /\ UNCHANGED <<inputs, codec, pos, loader, chunks, idx, cutLog, manifest,
                   concatLog, ignoredOut>>

ErrChunkNumber(i, n) == <<"ERROR: incorrect chunk number", Itoa(i), Itoa(n)>>

\* chunkSubcommand: the chunk number check and chunks[*chunkPtr]
ChunkSelect ==
    /\ pc = "select"
    /\ IF ChunkNumberRejected(chunkPtr, Len(chunks))
       THEN /\ pc' = "exit"
            /\ err' = ErrChunkNumber(chunkPtr, Len(chunks))
            /\ exitCode' = 1
            /\ UNCHANGED idx
       ELSE IF IndexPanics(chunkPtr, Len(chunks))
       THEN /\ Panic(ErrIndex)
            /\ UNCHANGED idx
       ELSE /\ pc' = "chunkcut"
            /\ idx' = chunkPtr + 1
            /\ UNCHANGED <<err, exitCode>>
    /\ UNCHANGED <<inputs, codec, outputs, pos, loader, chunks>>

\* chunkSubcommand: ffmpegCutChunk and panic_if_err
ChunkCut ==
    /\ pc = "chunkcut"
    /\ LET chunk == chunks[idx]
       IN  IF DurationPanics(chunk, chunk.End)
           THEN /\ Panic(ErrIncorrectEnd)
                /\ UNCHANGED cutLog
           ELSE \E ok \in BOOLEAN :
                /\ cutLog' = Append(cutLog, [args |-> CutArgs(chunk), ok |-> ok])
                /\ IF ok
                   THEN /\ pc' = "report"
                        /\ UNCHANGED <<err, exitCode>>
                   ELSE Panic(ErrCut)
    /\ UNCHANGED <<inputs, codec, pos, loader, chunks, idx, manifest, concatLog,
                   highlightsOut, ignoredOut>>

\* chunkSubcommand: the "Ignored timestamps" report; the lines in front of
\* a failing Duration assertion are already printed when it fires
ChunkReport ==
    /\ pc = "report"
    /\ LET chunk == chunks[idx]
           bad == {k \in 1..Len(chunk.Ignored) : DurationPanics(chunk, chunk.Ignored[k])}
           n == IF bad = {} THEN Len(chunk.Ignored)
                ELSE (CHOOSE k \in bad : \A j \in bad : k <= j) - 1
       IN  /\ ignoredOut' = [k \in 1..n |-> secsToTs(Duration(chunk, chunk.Ignored[k]))]
           /\ IF bad = {} THEN Finish ELSE Panic(ErrIncorrectEnd)
    /\ UNCHANGED <<inputs, codec, pos, loader, chunks, idx, cutLog, manifest,
                   concatLog, highlightsOut>>

Next ==
    \/ LoadRecord
    \/ LoadEOF
    \/ FinalCut
    \/ ListCreate
    \/ ListLine
    \/ Concat
    \/ PrintHighlights
    \/ ChunkSelect
    \/ ChunkCut
    \/ ChunkReport

Spec == Init /\ [][Next]_vars

\* ------------------------------------------- the timestamp codec alone
\* secsToTs and tsToSecs applied to every secs of 0..MaxSecs
CodecInit ==
    /\ codec \in [step : {"secs"}, secs : 0..MaxSecs, ts : {<<>>},
                  back : {[panic |-> FALSE, val |-> 0]}]
    /\ stream = <<>>
    /\ delay = 0
    /\ cmd = "inspect"
    /\ chunkPtr = 0
    /\ pc = "codec"
    /\ pos = 0
    /\ loader = LoaderInit
    /\ chunks = <<>>
    /\ idx = 0
    /\ cutLog = <<>>
    /\ manifest = <<>>
    /\ concatLog = <<>>
    /\ highlightsOut = <<>>
    /\ ignoredOut = <<>>
    /\ err = NoErr
    /\ exitCode = -1

main == <<stream, delay, cmd, chunkPtr, pc, pos, loader, chunks, idx, cutLog,
          manifest, concatLog, highlightsOut, ignoredOut, err, exitCode>>

Encode ==
    /\ codec.step = "secs"
    /\ codec' = [codec EXCEPT !.step = "ts", !.ts = secsToTs(codec.secs)]
    /\ UNCHANGED main

Decode ==
    /\ codec.step = "ts"
    /\ codec' = [codec EXCEPT !.step = "back", !.back = tsToSecs(codec.ts)]
    /\ UNCHANGED main

CodecNext == Encode \/ Decode

SpecCodec == CodecInit /\ [][CodecNext]_vars

\* --------------------------------------- inspect, from the loaded chunks
\* The run of the inspect subcommand at the return of loadChunksFromFile,
\* for every stream of up to MaxLenLoaded records that loads.
LoadedInit ==
    /\ stream \in SeqsUpTo(MaxLenLoaded)
    /\ delay \in Delays
    /\ cmd = "inspect"
    /\ chunkPtr = 0
    /\ loader = loadChunksFromFile(stream, delay)
    /\ loader.err = NoErr
    /\ chunks = loader.chunks
    /\ pc = "highlights"
    /\ pos = Len(stream)
    /\ idx = 1
    /\ cutLog = <<>>
    /\ manifest = <<>>
    /\ concatLog = <<>>
    /\ highlightsOut = <<>>
    /\ ignoredOut = <<>>
    /\ err = NoErr
    /\ exitCode = -1
    /\ codec = CodecOff

LoadedNext == PrintHighlights

SpecLoaded == LoadedInit /\ [][LoadedNext]_vars

\* ======================================================== properties
\* vocabulary of the properties, stated on the input stream itself
NonIgnoreCount(records) ==
    Cardinality({i \in 1..Len(records) : records[i].flag # "ignore"})

NonIgnoreBefore(records, i) ==
    Cardinality({j \in 1..(i - 1) : records[j].flag # "ignore"})

IgnoreCount(records) ==
    Cardinality({i \in 1..Len(records) : records[i].flag = "ignore"})

\* no ignore marker in front of the first non-ignore marker
NoLeadingIgnore(records) ==
    \A i \in 1..Len(records) :
        records[i].flag = "ignore" => NonIgnoreBefore(records, i) > 0

\* every ignore marker lies between an opening marker and its closing one
IgnoresInsideChunks(records) ==
    \A i \in 1..Len(records) :
        records[i].flag = "ignore" => NonIgnoreBefore(records, i) % 2 = 1

LoadDone == pc # "load"
LoadReturned == LoadDone /\ loader.err = NoErr

RECURSIVE SumDurations(_)
SumDurations(cs) ==
    IF cs = <<>> THEN 0
    ELSE (cs[1].End - cs[1].Start) + SumDurations(Tail(cs))

\* C1 as stated: a stream with an even number of non-ignore markers and no
\* ignore marker in front of the first non-ignore marker loads without a
\* fatal error into (number of non-ignore markers)/2 chunks.
C1_TotalityAsStated ==
    (LoadDone /\ NonIgnoreCount(stream) % 2 = 0 /\ NoLeadingIgnore(stream))
        => /\ LoadReturned
           /\ Len(chunks) = NonIgnoreCount(stream) \div 2

\* C1 amended: a stream with an even number of non-ignore markers in which
\* every ignore marker lies inside a chunk (an odd number of non-ignore
\* markers precede it) loads without a fatal error into (number of
\* non-ignore markers)/2 chunks.
C1_Totality ==
    (LoadDone /\ NonIgnoreCount(stream) % 2 = 0 /\ IgnoresInsideChunks(stream))
        => /\ LoadReturned
           /\ pos = Len(stream)
           /\ Len(chunks) = NonIgnoreCount(stream) \div 2

C1_Witness ==
    /\ LoadReturned
    /\ Len(chunks) = 1
    /\ IgnoreCount(stream) > 0
    /\ delay # 0

\* C2 as stated: every stream with an odd number of non-ignore markers
\* fails with the unclosed-chunk error and with no other error.
C2_OddRejectedAsStated ==
    (LoadDone /\ NonIgnoreCount(stream) % 2 = 1)
        => (pc = "panic" /\ err = <<"Unclosed chunk detected!">>)

\* C2 amended: every stream with an odd number of non-ignore markers in
\* which every ignore marker lies inside a chunk fails with the
\* unclosed-chunk error, raised by the check after the last record, and
\* with no other error.
C2_OddRejected ==
    (LoadDone /\ NonIgnoreCount(stream) % 2 = 1 /\ IgnoresInsideChunks(stream))
        => /\ pc = "panic"
           /\ err = <<"Unclosed chunk detected!">>
           /\ exitCode = 2
           /\ pos = Len(stream)
           /\ chunks = <<>>

C2_Witness ==
    /\ pc = "panic"
    /\ err = <<"Unclosed chunk detected!">>
    /\ NonIgnoreCount(stream) = 3
    /\ IgnoreCount(stream) > 0

\* C3: an ignore marker consumed while no chunk is open ends the load at
\* that record with the out-of-chunk panic carrying the record's timestamp
\* plus the delay; no record is consumed after a panic.
C3_OutOfChunk ==
    [][/\ (/\ pc = "load"
           /\ pos < Len(stream)
           /\ loader.chunkCurrent = <<>>
           /\ stream[pos + 1].flag = "ignore")
          => /\ pc' = "panic"
             /\ exitCode' = 2
             /\ pos' = pos + 1
             /\ err' = <<"Out of Chunk Ignored Marker", Itoa(stream[pos + 1].ts + delay)>>
             /\ chunks' = <<>>
       /\ pc = "panic" => pos' = pos]_vars

C3_Witness ==
    /\ pc = "panic"
    /\ err[1] = "Out of Chunk Ignored Marker"
    /\ pos = 3
    /\ pos < Len(stream)
    /\ delay # 0

\* C4: every chunk a successful load returns has End >= Start and every
\* ignored timestamp within Start..End, so the assertion in Chunk.Duration
\* never fires on a loaded chunk.
C4_ChunkBounds ==
    /\ LoadReturned =>
          \A k \in 1..Len(chunks) :
              /\ chunks[k].End >= chunks[k].Start
              /\ \A j \in 1..Len(chunks[k].Ignored) :
                    /\ chunks[k].Start <= chunks[k].Ignored[j]
                    /\ chunks[k].Ignored[j] <= chunks[k].End
    /\ err # <<"Assertion Failed: Incorrect end">>

\* C5: loading with delay d succeeds exactly when loading with delay 0
\* succeeds, and then yields as many chunks, with the same names, every
\* Start, End and ignored value being d more than in the delay-0 load.
C5_DelayInvariance ==
    LoadDone =>
        LET zero == loadChunksFromFile(stream, 0)
        IN  /\ (loader.err = NoErr) <=> (zero.err = NoErr)
            /\ loader.err = NoErr =>
                  /\ Len(chunks) = Len(zero.chunks)
                  /\ \A k \in 1..Len(chunks) :
                        /\ chunks[k].Name = zero.chunks[k].Name
                        /\ chunks[k].Start = zero.chunks[k].Start + delay
                        /\ chunks[k].End = zero.chunks[k].End + delay
                        /\ Len(chunks[k].Ignored) = Len(zero.chunks[k].Ignored)
                        /\ \A j \in 1..Len(chunks[k].Ignored) :
                              chunks[k].Ignored[j] = zero.chunks[k].Ignored[j] + delay

C5_Witness ==
    /\ LoadReturned
    /\ delay < 0
    /\ Len(chunks) >= 1
    /\ Len(chunks[1].Ignored) = 2

\* highlightChunks has been called on the loaded chunks and is over
HighlightsOver ==
    /\ LoadReturned
    /\ pc \in {"done", "panic"}
    /\ \/ cmd = "inspect"
       \/ cmd = "final" /\ concatLog # <<>> /\ concatLog[Len(concatLog)].ok

\* C6: on a non-empty loaded chunk sequence highlightChunks returns a list
\* whose last element is a "cut" whose timestamp decodes to the sum of
\* End - Start over all chunks.
C6_TimelineSum ==
    (HighlightsOver /\ chunks # <<>>)
        => /\ pc = "done"
           /\ highlightsOut # <<>>
           /\ highlightsOut[Len(highlightsOut)].message = "cut"
           /\ tsToSecs(highlightsOut[Len(highlightsOut)].timestamp)
                = [panic |-> FALSE, val |-> SumDurations(chunks)]

\* C7: in the chunk subcommand a chunk number i >= n, n the number of
\* loaded chunks, ends the run with the ERROR message disclosing n and exit
\* status 1, without a panic and without a cut.
C7_ChunkNumberChecked ==
    (cmd = "chunk" /\ LoadReturned /\ pc # "select" /\ chunkPtr >= Len(chunks))
        => /\ pc = "exit"
           /\ exitCode = 1
           /\ err = <<"ERROR: incorrect chunk number", Itoa(chunkPtr), Itoa(Len(chunks))>>
           /\ cutLog = <<>>

\* C8: in the final subcommand ffmpeg is invoked to cut exactly once per
\* loaded chunk, in chunk order, with -ss Start, -t End - Start and the
\* chunk's name, however the earlier cuts ended.
C8_BatchContinues ==
    (cmd = "final" /\ LoadReturned)
        => /\ Len(cutLog) <= Len(chunks)
           /\ \A k \in 1..Len(cutLog) :
                 cutLog[k].args = [ss |-> Itoa(chunks[k].Start),
                                   t |-> Itoa(chunks[k].End - chunks[k].Start),
                                   out |-> chunks[k].Name]
           /\ pc # "cut" => Len(cutLog) = Len(chunks)

\* C9: in the final subcommand the concat list is written only after a cut
\* has been attempted for every chunk, holds one line per chunk in chunk
\* order whether or not its cut succeeded, and is complete when ffmpeg is
\* invoked to concatenate.
C9_Manifest ==
    LET lines == [k \in 1..Len(chunks) |-> <<"file '">> \o chunks[k].Name \o <<"'", "\n">>]
    IN  /\ (pc = "list" \/ manifest # <<>> \/ concatLog # <<>>)
              => (cmd = "final" /\ Len(cutLog) = Len(chunks))
        /\ Len(manifest) <= Len(chunks)
        /\ \A k \in 1..Len(manifest) : manifest[k] = lines[k]
        /\ concatLog # <<>> =>
              /\ Len(concatLog) = 1
              /\ concatLog[1].list = lines
              /\ manifest = lines
        /\ (cmd = "final" /\ pc \in {"highlights", "done"}) => manifest = lines

C9_Witness ==
    /\ concatLog # <<>>
    /\ Len(chunks) = 2
    /\ ~cutLog[1].ok
    /\ cutLog[2].ok
    /\ Len(manifest) = 2

Example == <<[ts |-> 10, flag |-> ""], [ts |-> 20, flag |-> ""],
             [ts |-> 25, flag |-> "ignore"], [ts |-> 30, flag |-> ""]>>

\* C10 as stated: the records (10), (20), (25, ignore), (30) with delay 0
\* load into chunk-00 {10, 20, []} and chunk-01 {20, 30, [25]}, whose
\* highlights are ("00:00:15", ignored), ("00:00:20", cut).
C10_ExampleAsStated ==
    (LoadDone /\ stream = Example /\ delay = 0)
        => /\ LoadReturned
           /\ chunks = <<[Start |-> 10, End |-> 20, Ignored |-> <<>>,
                          Name |-> <<"chunk-", "0", "0">>],
                         [Start |-> 20, End |-> 30, Ignored |-> <<25>>,
                          Name |-> <<"chunk-", "0", "1">>]>>
           /\ highlightChunks(chunks).highlights =
                 <<[timestamp |-> <<"0", "0", ":", "0", "0", ":", "1", "5">>,
                    message |-> "ignored"],
                   [timestamp |-> <<"0", "0", ":", "0", "0", ":", "2", "0">>,
                    message |-> "cut"]>>

\* C10 amended: on these records with delay 0 the load closes one chunk,
\* chunk-00.mp4 {10, 20, []}, and panics on the third record with the
\* out-of-chunk error carrying 25; no chunk is returned and nothing is cut,
\* listed or printed.
C10_Example ==
    (LoadDone /\ stream = Example /\ delay = 0)
        => /\ pc = "panic"
           /\ exitCode = 2
           /\ err = <<"Out of Chunk Ignored Marker", <<"2", "5">>>>
           /\ pos = 3
           /\ loader.chunks = <<[Start |-> 10, End |-> 20, Ignored |-> <<>>,
                                 Name |-> <<"chunk-", "0", "0", ".mp4">>]>>
           /\ chunks = <<>>
           /\ outputs = <<<<>>, <<>>, <<>>, <<>>, <<>>>>

C10_Witness ==
    /\ stream = Example
    /\ delay = 0
    /\ pc = "panic"
    /\ pos = 3

\* C11: tsToSecs(secsToTs(s)) = s for every s of 0..359999.
C11_RoundTrip ==
    codec.step = "back" => codec.back = [panic |-> FALSE, val |-> codec.secs]

C11_Witness ==
    /\ codec.step = "back"
    /\ codec.secs = 359999
    /\ codec.ts = <<"9", "9", ":", "5", "9", ":", "5", "9">>
    /\ codec.back.val = 359999

\* k < 100 written with two decimal digits
TwoDigits(k) == <<DigitChars[(k \div 10) + 1], DigitChars[(k % 10) + 1]>>

\* C12 as stated: the chunk closed when k chunks are already closed is
\* named "chunk-" followed by k in two digits, so the k-th returned chunk
\* (from 0) carries index k and no two chunks share a name.
C12_NamingAsStated ==
    /\ \A k \in 1..Len(loader.chunks) :
          loader.chunks[k].Name = <<"chunk-">> \o TwoDigits(k - 1)
    /\ \A k, l \in 1..Len(loader.chunks) :
          k # l => loader.chunks[k].Name # loader.chunks[l].Name

\* C12 amended: the name is "chunk-", k in two digits, then ".mp4".
C12_Naming ==
    /\ \A k \in 1..Len(loader.chunks) :
          loader.chunks[k].Name = <<"chunk-">> \o TwoDigits(k - 1) \o <<".mp4">>
    /\ \A k, l \in 1..Len(loader.chunks) :
          k # l => loader.chunks[k].Name # loader.chunks[l].Name
    /\ LoadReturned => chunks = loader.chunks

C12_Witness ==
    /\ LoadReturned
    /\ Len(chunks) = 2
    /\ chunks[2].Name = <<"chunk-", "0", "1", ".mp4">>

\* the running total on entry to chunk k, and the number of highlights
\* in front of chunk k's
AccBefore(cs, k) == SumDurations(SubSeq(cs, 1, k - 1))

RECURSIVE HighlightsBefore(_, _)
HighlightsBefore(cs, k) ==
    IF k <= 1 THEN 0
    ELSE HighlightsBefore(cs, k - 1) + Len(cs[k - 1].Ignored) + 1

\* C13: when highlightChunks completes it has returned, chunk by chunk, one
\* "ignored" highlight per ignored timestamp t, in recorded order, stamped
\* secsToTs(acc + (t - Start)), then one "cut" stamped
\* secsToTs(acc + (End - Start)), acc being the sum of End - Start of the
\* earlier chunks; (number of chunks + number of ignored timestamps) in all.
C13_Derivation ==
    (HighlightsOver /\ pc = "done")
        => /\ Len(highlightsOut) = HighlightsBefore(chunks, Len(chunks) + 1)
           /\ \A k \in 1..Len(chunks) :
                 LET c == chunks[k]
                     acc == AccBefore(chunks, k)
                     off == HighlightsBefore(chunks, k)
                 IN  /\ \A j \in 1..Len(c.Ignored) :
                           highlightsOut[off + j] =
                               [timestamp |-> secsToTs(acc + (c.Ignored[j] - c.Start)),
                                message |-> "ignored"]
                     /\ highlightsOut[off + Len(c.Ignored) + 1] =
                           [timestamp |-> secsToTs(acc + (c.End - c.Start)),
                            message |-> "cut"]

C13_Witness ==
    /\ HighlightsOver
    /\ pc = "done"
    /\ Len(chunks) = 2
    /\ chunks[1].End > chunks[1].Start
    /\ Len(chunks[2].Ignored) = 1
    /\ Len(highlightsOut) = 3

\* position in the stream of the n-th non-ignore marker
NonIgnorePos(records, n) ==
    CHOOSE i \in 1..Len(records) :
        records[i].flag # "ignore" /\ NonIgnoreBefore(records, i) = n - 1

\* the records that open and close the k-th chunk
OpenPos(records, k) == NonIgnorePos(records, 2 * k - 1)
ClosePos(records, k) == NonIgnorePos(records, 2 * k)

\* C14: a successful load returns the chunks in the order of their opening
\* markers in the input, and their Start values never decrease along the
\* returned sequence.
C14_EmissionOrder ==
    LoadReturned =>
        /\ \A k \in 1..Len(chunks) :
              chunks[k].Start = stream[OpenPos(stream, k)].ts + delay
        /\ \A k \in 1..(Len(chunks) - 1) :
              chunks[k + 1].Start >= chunks[k].Start

\* each ignore marker lies in the chunk opened before and closed after it,
\* each chunk holds its ignore markers in input order
IgnoresAttributed ==
    LoadReturned =>
        /\ \A k \in 1..Len(chunks) :
              LET lo == OpenPos(stream, k)
                  hi == ClosePos(stream, k)
              IN  chunks[k].Ignored = [j \in 1..(hi - lo - 1) |-> stream[lo + j].ts + delay]
        /\ \A i \in 1..Len(stream) :
              stream[i].flag = "ignore" =>
                  Cardinality({k \in 1..Len(chunks) :
                      OpenPos(stream, k) < i /\ i < ClosePos(stream, k)}) = 1

\* the step that consumes an ignore marker while a chunk is open
IgnoreStepFrame ==
    (/\ pc = "load"
     /\ pos < Len(stream)
     /\ loader.chunkCurrent # <<>>
     /\ stream[pos + 1].flag = "ignore")
        => /\ pc' = "load"
           /\ pos' = pos + 1
           /\ Len(loader'.chunkCurrent) = 1
           /\ loader'.chunkCurrent[1] =
                 [loader.chunkCurrent[1] EXCEPT
                     !.Ignored = Append(@, stream[pos + 1].ts + delay)]
           /\ loader'.chunks = loader.chunks
           /\ loader'.err = NoErr

\* C15: in a successful load every ignore marker appears exactly once, in
\* the ignored sequence of the chunk opened before it and closed after it,
\* in input order; consuming it leaves the parser Open and the open chunk's
\* Start and the closed chunks as they were.
C15_IgnoreAttribution == []IgnoresAttributed /\ [][IgnoreStepFrame]_vars

C15_Witness ==
    /\ LoadReturned
    /\ Len(chunks) = 1
    /\ Len(chunks[1].Ignored) = 2
    /\ chunks[1].Ignored[1] # chunks[1].Ignored[2]

\* C16: the final subcommand invokes the concatenation once, after the
\* concat list is written; a failure ends the run with no highlight
\* printed, and highlights are printed only after a successful
\* concatenation.
C16_ConcatFatal ==
    /\ Len(concatLog) <= 1
    /\ concatLog # <<>> =>
          /\ cmd = "final"
          /\ pc \in {"highlights", "done", "panic"}
          /\ Len(manifest) = Len(chunks)
          /\ concatLog[1].list = manifest
    /\ (concatLog # <<>> /\ ~concatLog[1].ok) =>
          /\ pc = "panic"
          /\ exitCode = 2
          /\ err = <<"ffmpeg concat failed">>
          /\ highlightsOut = <<>>
    /\ (cmd = "final" /\ (pc \in {"highlights", "done"} \/ highlightsOut # <<>>)) =>
          /\ Len(concatLog) = 1
          /\ concatLog[1].ok

C16_Witness ==
    /\ cmd = "final"
    /\ pc = "panic"
    /\ err = <<"ffmpeg concat failed">>
    /\ Len(manifest) = 2
    /\ highlightsOut = <<>>

\* C17: the chunk subcommand with a chunk number in range invokes the cut
\* once, for that chunk; a failed cut ends the run with no ignored timestamp
\* reported; after a successful cut every ignored timestamp t of the chunk
\* is reported, in recorded order, as secsToTs(t - Start).
C17_SingleChunk ==
    (/\ cmd = "chunk"
     /\ LoadReturned
     /\ 0 <= chunkPtr /\ chunkPtr < Len(chunks)
     /\ pc \in {"done", "panic"})
        => LET c == chunks[chunkPtr + 1]
           IN  /\ Len(cutLog) = 1
               /\ cutLog[1].args = [ss |-> Itoa(c.Start),
                                     t |-> Itoa(c.End - c.Start),
                                     out |-> c.Name]
               /\ IF cutLog[1].ok
                  THEN /\ pc = "done"
                       /\ ignoredOut =
                             [j \in 1..Len(c.Ignored) |-> secsToTs(c.Ignored[j] - c.Start)]
                  ELSE /\ pc = "panic"
                       /\ err = <<"ffmpeg cut failed">>
                       /\ ignoredOut = <<>>

\* while records are consumed without error: at most one open chunk, open
\* exactly when an odd number of non-ignore markers is consumed, and half
\* of them (rounded down) chunks closed
ParserStateOk ==
    loader.err = NoErr =>
        LET n == NonIgnoreBefore(stream, pos + 1)
        IN  /\ Len(loader.chunkCurrent) <= 1
            /\ (loader.chunkCurrent # <<>>) <=> (n % 2 = 1)
            /\ Len(loader.chunks) = n \div 2

\* the closed chunks only grow, by one chunk appended at a time
ClosedOnlyAppended ==
    /\ Len(loader'.chunks) \in {Len(loader.chunks), Len(loader.chunks) + 1}
    /\ SubSeq(loader'.chunks, 1, Len(loader.chunks)) = loader.chunks
    /\ Len(loader'.chunks) > Len(loader.chunks) =>
          (pc = "load" /\ loader.chunkCurrent # <<>> /\ loader'.chunkCurrent = <<>>)

\* C18: after any prefix of records consumed without error the parser holds
\* at most one open chunk, is Open exactly when the number of non-ignore
\* markers consumed is odd, has closed floor(that number / 2) chunks, and
\* the closed chunks only ever grow by appending.
C18_ParserState == []ParserStateOk /\ [][ClosedOnlyAppended]_vars

C18_Witness ==
    /\ pc = "load"
    /\ pos = 3
    /\ Len(loader.chunks) = 1
    /\ loader.chunkCurrent # <<>>

\* the stream makes the load fail
StreamRejected ==
    \/ ~IgnoresInsideChunks(stream)
    \/ NonIgnoreCount(stream) % 2 = 1

\* C19: no cut, no concat list line and no concatenation happens before the
\* whole stream is loaded without a fatal error; a stream with an ignore
\* marker outside a chunk or an unclosed chunk ends the run with none of
\* them.
C19_FailFast ==
    /\ (pc \in {"cut", "list", "select", "chunkcut", "report", "highlights", "done", "exit"}
           \/ outputs # <<<<>>, <<>>, <<>>, <<>>, <<>>>>)
          => /\ LoadReturned
             /\ pos = Len(stream)
             /\ ~StreamRejected
    /\ (LoadDone /\ StreamRejected)
          => /\ pc = "panic"
             /\ exitCode = 2
             /\ err[1] \in {"Out of Chunk Ignored Marker", "Unclosed chunk detected!"}
             /\ outputs = <<<<>>, <<>>, <<>>, <<>>, <<>>>>

C19_Witness ==
    /\ cmd = "final"
    /\ pc = "panic"
    /\ err[1] = "Out of Chunk Ignored Marker"
    /\ pos = 3
    /\ Len(loader.chunks) = 1
    /\ cutLog = <<>>

====
